---- MODULE Spec2Model ----
(***************************************************************************)
(* A model of extension/create_simple_icons.py: the module body creates    *)
(* the icons directory, calls create_icon for the sizes 16, 48 and 128 and *)
(* prints a final line.  One action per statement (or statement group) of  *)
(* the script; the file system, the font resource and the glyph metrics    *)
(* are the environment.                                                    *)
(***************************************************************************)
EXTENDS Integers, Sequences, FiniteSets, TLC

\* ------------------------------------------------------------ bounds
\* Number of times the script is run one after another (SpecTwice).
MaxRuns == 2
\* Largest left/top bearing of a measured bounding box (bbox[0], bbox[1]).
MaxBearing == 1

\* ------------------------------------------------------------ program text
\* The three calls of lines 36-38, in program order.
Calls_Swapped ==
  << [size |-> 48,  filename |-> "icon48.png"],
     [size |-> 16,  filename |-> "icon16.png"],
     [size |-> 128, filename |-> "icon128.png"] >>
Calls_RepeatedName ==
  << [size |-> 16,  filename |-> "icon16.png"],
     [size |-> 48,  filename |-> "icon48.png"],
     [size |-> 128, filename |-> "icon48.png"] >>
Calls ==
  << [size |-> 16,  filename |-> "icon16.png"],
     [size |-> 48,  filename |-> "icon48.png"],
     [size |-> 128, filename |-> "icon128.png"] >>

\* The directory of lines 29 and 33.
IconsDir == "/Users/maciejorlowski/lumos/extension/icons"

\* Every path the script can write to: IconsDir/<filename>.
Filenames == {"icon16.png", "icon48.png", "icon128.png"}

\* f'Created {filename}', line 30, for the filenames the script passes.
CreatedLine(name) ==
  CASE name = "icon16.png" -> "Created icon16.png"
    [] name = "icon48.png" -> "Created icon48.png"
    [] name = "icon128.png" -> "Created icon128.png"

\* The line of line 40.
FinalLine == "All icons created successfully!"

\* ------------------------------------------------------------ values
NoGlyph == <<>>
NoFont == [kind |-> "none", size |-> 0]
NoBBox == <<0, 0, 0, 0>>
NoImg == [width |-> 0, height |-> 0, bg |-> "", glyph |-> NoGlyph]

\* A file that does not exist, a file left by something else than this run's
\* code, and a file whose write was interrupted.
Absent == [state |-> "absent", img |-> NoImg]
Stale == [state |-> "stale", img |-> NoImg]
Partial == [state |-> "partial", img |-> NoImg]

\* int(size * 0.6), line 12.  0.6 is the double 0.59999999999999997779...; the
\* double product is 9.6, 28.799999999999997 and 76.8 for 16, 48 and 128, and
\* int() truncates toward zero.  For a positive size the truncated double product
\* equals the floor of the exact 6*size/10: a product that is not an integer
\* lies at least 0.2 from one, and an exact integer product rounds to itself.
FontSize_Nearest(size) == (size * 6 + 5) \div 10
FontSize(size) == (size * 6) \div 10

\* ImageFont.truetype(path, font_size), line 13, when it succeeds.
TrueTypeFont(font_size) == [kind |-> "truetype", size |-> font_size]

\* ImageFont.load_default(), line 15: a built-in font of fixed size (no size is asked for).
DefaultFont == [kind |-> "default", size |-> 0]

\* The fonts create_icon can select.
Fonts == {TrueTypeFont(FontSize(Calls[i].size)) : i \in 1..Len(Calls)} \cup {DefaultFont}

\* Image.new('RGB', (size, size), '#667eea'), line 7.
NewImage_FixedWidth(size) == [width |-> 16, height |-> size, bg |-> "#667eea", glyph |-> NoGlyph]
NewImage(size) == [width |-> size, height |-> size, bg |-> "#667eea", glyph |-> NoGlyph]

\* What draw.textbbox((0, 0), "L", font=font) can return, line 19: (left, top,
\* right, bottom).  The left and top bearings are 0..MaxBearing; a box with an
\* even bearing holds a glyph narrower than every icon (6 x 8), one with an odd
\* bearing a glyph wider than the smallest icon (17 x 19).
BBoxSet ==
  { <<b, b, b + (IF b % 2 = 0 THEN 6 ELSE 17), b + (IF b % 2 = 0 THEN 8 ELSE 19)>> :
      b \in 0..MaxBearing }

\* text_width = bbox[2] - bbox[0], line 20 (Python indexes from 0).
TextWidth_RightEdge(b) == b[3]
TextWidth(b) == b[3] - b[1]

\* text_height = bbox[3] - bbox[1], line 21.
TextHeight(b) == b[4] - b[2]

\* (size - extent) // 2, lines 23-24: Python's // floors, as \div does.
TruncDiv(a, b) == IF a >= 0 THEN a \div b ELSE -((-a) \div b)
Offset_Truncating(size, extent) == TruncDiv(size - extent, 2)
Offset(size, extent) == (size - extent) \div 2

\* ------------------------------------------------------------ state
VARIABLES
  pc,         \* the statement about to run; "done" and "aborted" are the two ends
  idx,        \* which call of lines 36-38 is running or next
  err,        \* the exception that ended the run, "none" while there is none
  dirExists,  \* whether IconsDir exists
  files,      \* the content of IconsDir/<filename>, per filename
  out,        \* the lines printed to standard output in this run
  img,        \* create_icon's local img (draw paints on it)
  font_size,  \* create_icon's local font_size
  font,       \* create_icon's local font
  bbox,       \* create_icon's local bbox
  x,          \* create_icon's local x
  y,          \* create_icon's local y
  metrics,    \* the font resource: the box each font measured "L" to (stable once measured)
  trace,      \* history: the file-system and output operations of this run, in order
  run,        \* history: how many times the script was started
  prevFiles,  \* history: files as the previous run left them
  prevOk      \* history: whether the previous run ended at "done"

vars == <<pc, idx, err, dirExists, files, out, img, font_size, font, bbox, x, y,
          metrics, trace, run, prevFiles, prevOk>>

locals == <<img, font_size, font, bbox, x, y>>
history == <<run, prevFiles, prevOk>>

\* The arguments of the running call.
size == Calls[idx].size
filename == Calls[idx].filename

Event(op, arg, ok) == [op |-> op, arg |-> arg, ok |-> ok]

\* An uncaught exception: the interpreter unwinds and the process exits.
Raise(e) == pc' = "aborted" /\ err' = e

\* The order of the statements of create_icon's body, lines 7-30.
NextPc_PrintBeforeSave(p) ==
  CASE p = "new" -> "font"
    [] p = "font" -> "bbox"
    [] p = "bbox" -> "centre"
    [] p = "centre" -> "draw"
    [] p = "draw" -> "print"
    [] p = "print" -> "save"
    [] p = "save" -> "return"
NextPc(p) ==
  CASE p = "new" -> "font"
    [] p = "font" -> "bbox"
    [] p = "bbox" -> "centre"
    [] p = "centre" -> "draw"
    [] p = "draw" -> "save"
    [] p = "save" -> "print"
    [] p = "print" -> "return"

\* The state a fresh process starts in, whatever the file system holds.
Start ==
  /\ pc = "makedirs"
  /\ idx = 1
  /\ err = "none"
  /\ out = <<>>
  /\ img = NoImg
  /\ font_size = 0
  /\ font = NoFont
  /\ bbox = NoBBox
  /\ x = 0
  /\ y = 0
  /\ trace = <<>>

Init ==
  /\ Start
  /\ dirExists \in BOOLEAN
  /\ files \in [Filenames -> {Absent, Stale}]
  /\ (~dirExists => files = [f \in Filenames |-> Absent])
  /\ metrics = [f \in {} |-> NoBBox]
  /\ run = 1
  /\ prevFiles = files
  /\ prevOk = FALSE

\* ------------------------------------------------------------ the module body
\* os.makedirs(IconsDir, exist_ok=True), line 33: nothing to do when the
\* directory exists; otherwise it is created, or the creation is refused.
Makedirs_NoExistOk ==
  /\ pc = "makedirs"
  /\ \/ /\ dirExists
        /\ trace' = Append(trace, Event("makedirs", IconsDir, FALSE))
        /\ Raise("FileExistsError")
        /\ UNCHANGED dirExists
     \/ /\ ~dirExists
        /\ dirExists' = TRUE
        /\ trace' = Append(trace, Event("makedirs", IconsDir, TRUE))
        /\ pc' = "call"
        /\ UNCHANGED err
  /\ UNCHANGED <<idx, files, out, locals, metrics, history>>
Makedirs ==
  /\ pc = "makedirs"
  /\ \/ /\ dirExists' = TRUE
        /\ trace' = Append(trace, Event("makedirs", IconsDir, TRUE))
        /\ pc' = "call"
        /\ UNCHANGED err
     \/ /\ ~dirExists
        /\ trace' = Append(trace, Event("makedirs", IconsDir, FALSE))
        /\ Raise("OSError:makedirs")
        /\ UNCHANGED dirExists
  /\ UNCHANGED <<idx, files, out, locals, metrics, history>>

\* create_icon(size, filename) is entered, lines 36-38 and 5.
Call ==
  /\ pc = "call"
  /\ pc' = "new"
  /\ UNCHANGED <<idx, err, dirExists, files, out, locals, metrics, trace, history>>

\* create_icon returns; the next call, or line 40 after the last one.
Return ==
  /\ pc = "return"
  /\ IF idx < Len(Calls)
       THEN idx' = idx + 1 /\ pc' = "call"
       ELSE idx' = idx /\ pc' = "final"
  /\ UNCHANGED <<err, dirExists, files, out, locals, metrics, trace, history>>

\* print('All icons created successfully!'), line 40; the script ends.
PrintFinal ==
  /\ pc = "final"
  /\ out' = Append(out, FinalLine)
  /\ trace' = Append(trace, Event("print", FinalLine, TRUE))
  /\ pc' = "done"
  /\ UNCHANGED <<idx, err, dirExists, files, locals, metrics, history>>

\* ------------------------------------------------------------ create_icon
\* img = Image.new(...); draw = ImageDraw.Draw(img), lines 7-8.
ImageNew ==
  /\ pc = "new"
  /\ img' = NewImage(size)
  /\ pc' = NextPc("new")
  /\ UNCHANGED <<idx, err, dirExists, files, out, font_size, font, bbox, x, y,
                 metrics, trace, history>>

\* try: font_size = ...; font = truetype(...) except: font = load_default(),
\* lines 11-15.  font_size is assigned before truetype can raise.
LoadFont_NoFallback ==
  /\ pc = "font"
  /\ font_size' = FontSize(size)
  /\ \/ /\ font' = TrueTypeFont(font_size')
        /\ pc' = NextPc("font")
        /\ UNCHANGED err
     \/ /\ font' = font
        /\ Raise("OSError:font")
  /\ UNCHANGED <<idx, dirExists, files, out, img, bbox, x, y, metrics, trace, history>>
LoadFont ==
  /\ pc = "font"
  /\ font_size' = FontSize(size)
  /\ \/ font' = TrueTypeFont(font_size')
     \/ font' = DefaultFont
  /\ pc' = NextPc("font")
  /\ UNCHANGED <<idx, err, dirExists, files, out, img, bbox, x, y, metrics, trace, history>>

\* bbox = draw.textbbox((0, 0), "L", font=font), lines 18-19: what the font
\* measures; the same font measures the same box every time.
TextBBox ==
  /\ pc = "bbox"
  /\ IF font \in DOMAIN metrics
       THEN bbox' = metrics[font] /\ UNCHANGED metrics
       ELSE \E b \in BBoxSet : bbox' = b /\ metrics' = (font :> b) @@ metrics
  /\ pc' = NextPc("bbox")
  /\ UNCHANGED <<idx, err, dirExists, files, out, img, font_size, font, x, y,
                 trace, history>>

\* text_width, text_height, x and y, lines 20-24.
Centre ==
  /\ pc = "centre"
  /\ x' = Offset(size, TextWidth(bbox))
  /\ y' = Offset(size, TextHeight(bbox))
  /\ pc' = NextPc("centre")
  /\ UNCHANGED <<idx, err, dirExists, files, out, img, font_size, font, bbox,
                 metrics, trace, history>>

\* draw.text((x, y), "L", fill='white', font=font), line 26.
DrawText ==
  /\ pc = "draw"
  /\ img' = [img EXCEPT !.glyph = <<[at |-> <<x, y>>, font |-> font, box |-> bbox,
                                     fill |-> "white"]>>]
  /\ pc' = NextPc("draw")
  /\ UNCHANGED <<idx, err, dirExists, files, out, font_size, font, bbox, x, y,
                 metrics, trace, history>>

\* The path img.save writes, line 29, as the filename under IconsDir.
SavePath_Fixed(name) == "icon16.png"
SavePath(name) == name

\* img.save(f'{IconsDir}/{filename}'), line 29: the file is replaced by the
\* encoded canvas; or the write fails, the file is left as it was, removed or
\* cut short, and the exception leaves create_icon (nothing catches it).
Save_ErrorSwallowed ==
  /\ pc = "save"
  /\ \/ /\ files' = [files EXCEPT ![SavePath(filename)] = [state |-> "png", img |-> img]]
        /\ trace' = Append(trace, Event("save", SavePath(filename), TRUE))
     \/ /\ \E left \in {files[SavePath(filename)], Absent, Partial} :
             files' = [files EXCEPT ![SavePath(filename)] = left]
        /\ trace' = Append(trace, Event("save", SavePath(filename), FALSE))
  /\ pc' = NextPc("save")
  /\ UNCHANGED <<idx, err, dirExists, out, locals, metrics, history>>
Save ==
  /\ pc = "save"
  /\ \/ /\ files' = [files EXCEPT ![SavePath(filename)] = [state |-> "png", img |-> img]]
        /\ trace' = Append(trace, Event("save", SavePath(filename), TRUE))
        /\ pc' = NextPc("save")
        /\ UNCHANGED err
     \/ /\ \E left \in {files[SavePath(filename)], Absent, Partial} :
             files' = [files EXCEPT ![SavePath(filename)] = left]
        /\ trace' = Append(trace, Event("save", SavePath(filename), FALSE))
        /\ Raise("OSError:save")
  /\ UNCHANGED <<idx, dirExists, out, locals, metrics, history>>

\* print(f'Created {filename}'), line 30.
PrintCreated ==
  /\ pc = "print"
  /\ out' = Append(out, CreatedLine(filename))
  /\ trace' = Append(trace, Event("print", CreatedLine(filename), TRUE))
  /\ pc' = NextPc("print")
  /\ UNCHANGED <<idx, err, dirExists, files, locals, metrics, history>>

\* ------------------------------------------------------------ specifications
\* The script is started again on the file system the last run left.
Rerun ==
  /\ pc \in {"done", "aborted"}
  /\ run < MaxRuns
  /\ run' = run + 1
  /\ prevFiles' = files
  /\ prevOk' = (pc = "done")
  /\ pc' = "makedirs"
  /\ idx' = 1
  /\ err' = "none"
  /\ out' = <<>>
  /\ img' = NoImg
  /\ font_size' = 0
  /\ font' = NoFont
  /\ bbox' = NoBBox
  /\ x' = 0
  /\ y' = 0
  /\ trace' = <<>>
  /\ UNCHANGED <<dirExists, files, metrics>>

Next ==
  \/ Makedirs
  \/ Call
  \/ ImageNew
  \/ LoadFont
  \/ TextBBox
  \/ Centre
  \/ DrawText
  \/ Save
  \/ PrintCreated
  \/ Return
  \/ PrintFinal

\* One run of the script.
Spec == Init /\ [][Next]_vars

\* One run; the interpreter runs a runnable statement (single thread, no waiting).
FairSpec == Init /\ [][Next]_vars /\ WF_vars(Next)

NextTwice == Next \/ Rerun

\* The script run up to MaxRuns times in a row.
SpecTwice == Init /\ [][NextTwice]_vars

\* ------------------------------------------------------------ observations
IsPrefix(s, t) == Len(s) <= Len(t) /\ \A i \in 1..Len(s) : s[i] = t[i]

\* The files saved in this run, in the order of their saves.
SavedSeq ==
  LET ok == SelectSeq(trace, LAMBDA e : e.op = "save" /\ e.ok)
  IN  [i \in 1..Len(ok) |-> ok[i].arg]
Saved == {SavedSeq[i] : i \in 1..Len(SavedSeq)}

\* The files this run reported with a 'Created' line.
Reported ==
  { f \in Filenames :
      \/ f = "icon16.png" /\ \E i \in 1..Len(out) : out[i] = "Created icon16.png"
      \/ f = "icon48.png" /\ \E i \in 1..Len(out) : out[i] = "Created icon48.png"
      \/ f = "icon128.png" /\ \E i \in 1..Len(out) : out[i] = "Created icon128.png" }

FinalPrinted == \E i \in 1..Len(out) : out[i] = "All icons created successfully!"

Count(s, P(_)) == Len(SelectSeq(s, P))

\* The run's operations when nothing fails.
ExpectedTrace ==
  << [op |-> "makedirs", arg |-> "/Users/maciejorlowski/lumos/extension/icons", ok |-> TRUE],
     [op |-> "save", arg |-> "icon16.png", ok |-> TRUE],
     [op |-> "print", arg |-> "Created icon16.png", ok |-> TRUE],
     [op |-> "save", arg |-> "icon48.png", ok |-> TRUE],
     [op |-> "print", arg |-> "Created icon48.png", ok |-> TRUE],
     [op |-> "save", arg |-> "icon128.png", ok |-> TRUE],
     [op |-> "print", arg |-> "Created icon128.png", ok |-> TRUE],
     [op |-> "print", arg |-> "All icons created successfully!", ok |-> TRUE] >>

ExpectedOut ==
  << "Created icon16.png", "Created icon48.png", "Created icon128.png",
     "All icons created successfully!" >>

\* The edge length the script asks for, per output file.
EdgeOf(f) ==
  CASE f = "icon16.png" -> 16
    [] f = "icon48.png" -> 48
    [] f = "icon128.png" -> 128

\* The position of a file in the sequence of calls.
PlaceOf(f) ==
  CASE f = "icon16.png" -> 1
    [] f = "icon48.png" -> 2
    [] f = "icon128.png" -> 3

LastFailed == trace # <<>> /\ ~trace[Len(trace)].ok
SaveFailed == LastFailed /\ trace[Len(trace)].op = "save"

\* ------------------------------------------------------------ C1
\* What a run that a failed save ended looks like: the failed icon and every
\* later one is neither reported nor saved, and the final line is not printed.
AbortedBySave ==
  /\ pc = "aborted"
  /\ \A f \in Filenames :
       PlaceOf(f) >= PlaceOf(trace[Len(trace)].arg) => f \notin Reported /\ f \notin Saved
  /\ ~FinalPrinted

\* C1: a step in which img.save fails ends the run (the exception leaves
\* create_icon and the script), leaving the failed icon and all later icons
\* unreported and unsaved and the final line unprinted; and an ended run takes
\* no further step, so none of them is rendered, written or printed later.
C1_Theorem ==
  [][ /\ (SaveFailed' /\ trace' # trace) => (AbortedBySave' /\ out' = out)
      /\ pc # "aborted" ]_vars

C1_Witness ==
  /\ pc = "aborted"
  /\ SaveFailed
  /\ trace[Len(trace)].arg = "icon48.png"
  /\ out = <<"Created icon16.png">>

\* ------------------------------------------------------------ C2
\* C2: no run is ever ended by the font: past lines 11-15 a font is always
\* selected (the primary one at font_size, or the default one), the only
\* operations that end a run are makedirs and save, and a run that ends at
\* "done" has drawn and saved every icon whichever font was selected.
C2_Theorem ==
  /\ pc \in {"bbox", "centre", "draw", "save", "print", "return"} =>
       font \in Fonts /\ font \in {TrueTypeFont(font_size), DefaultFont}
  /\ pc = "aborted" => LastFailed /\ trace[Len(trace)].op \in {"makedirs", "save"}
  /\ pc = "done" =>
       \A f \in Filenames :
         /\ files[f].state = "png"
         /\ Len(files[f].img.glyph) = 1
         /\ files[f].img.glyph[1].font.kind \in {"truetype", "default"}

C2_Witness ==
  /\ pc = "done"
  /\ \A f \in Filenames :
       files[f].state = "png" /\ files[f].img.glyph[1].font = DefaultFont

\* ------------------------------------------------------------ C3
\* C3: the operations of a run, in order, are a prefix of: makedirs, save
\* icon16, print icon16, save icon48, print icon48, save icon128, print icon128,
\* final line; only the last operation of a run can be a failed one.  So
\* makedirs runs once and first, and each icon's save and status line precede
\* the next icon's save.
C3_Theorem ==
  /\ IsPrefix(SelectSeq(trace, LAMBDA e : e.ok), ExpectedTrace)
  /\ \A i \in 1..(Len(trace) - 1) : trace[i].ok
  /\ Count(trace, LAMBDA e : e.op = "makedirs") <= 1
  /\ Saved # {} => dirExists

C3_Witness == pc = "done" /\ trace = ExpectedTrace

\* ------------------------------------------------------------ C4
SuccessfulEnd ==
  /\ SavedSeq = <<"icon16.png", "icon48.png", "icon128.png">>
  /\ Count(trace, LAMBDA e : e.op = "save") = 3
  /\ \A f \in Filenames : files[f].state = "png"
  /\ out = ExpectedOut

\* C4: every run ends, at "done" or aborted by a failed makedirs or save; a
\* run in which no file-system operation failed ends at "done"; and at "done"
\* exactly the three files were written, once each and in order, and the output
\* is the three 'Created' lines in order followed by the final line.
C4_Theorem ==
  /\ <>(pc \in {"done", "aborted"})
  /\ [](pc = "done" => SuccessfulEnd)
  /\ [](pc = "aborted" => LastFailed)
  /\ [](FinalPrinted => pc = "done")

C4_Witness == pc = "done" /\ SuccessfulEnd /\ ~LastFailed

\* ------------------------------------------------------------ C5
\* C5: every file saved in this run holds an image whose width and height are
\* both the edge length asked for that file, whichever font drew the glyph.
C5_Theorem ==
  \A f \in Saved :
    /\ files[f].state = "png"
    /\ files[f].img.width = EdgeOf(f)
    /\ files[f].img.height = EdgeOf(f)

C5_Witness ==
  /\ pc = "done"
  /\ files["icon16.png"].img.glyph[1].font.kind = "default"
  /\ files["icon48.png"].img.glyph[1].font.kind = "truetype"
  /\ files["icon128.png"].img.width = 128
  /\ files["icon128.png"].img.height = 128

\* ------------------------------------------------------------ C6
\* floor((L - extent) / 2) without the division: twice the offset is L - extent
\* or one less.
IsFloorHalf(o, L, extent) == 2 * o <= L - extent /\ L - extent <= 2 * o + 1

\* C6: once x and y are computed they are the floors of half the slack left by
\* the box measured for the selected font (width = right - left, height =
\* bottom - top), and the glyph is drawn, and saved, at exactly (x, y).
C6_Theorem ==
  /\ pc \in {"draw", "save", "print", "return"} =>
       /\ bbox = metrics[font]
       /\ IsFloorHalf(x, size, bbox[3] - bbox[1])
       /\ IsFloorHalf(y, size, bbox[4] - bbox[2])
  /\ pc \in {"save", "print", "return"} =>
       /\ img.glyph[1].at = <<x, y>>
       /\ img.glyph[1].font = font
  /\ \A f \in Saved :
       LET g == files[f].img.glyph[1]
       IN  /\ IsFloorHalf(g.at[1], EdgeOf(f), g.box[3] - g.box[1])
           /\ IsFloorHalf(g.at[2], EdgeOf(f), g.box[4] - g.box[2])

\* The glyph is wider and taller than the icon: both offsets are negative.
C6_Witness ==
  /\ pc = "save"
  /\ size = 16
  /\ bbox = <<1, 1, 18, 20>>
  /\ x = -1
  /\ y = -2

\* ------------------------------------------------------------ C7
\* C7 as stated: the requested size is 60% of the edge length rounded to the
\* nearest integer (within one half of 0.6 * size).
C7_Original ==
  pc \in {"bbox", "centre", "draw", "save", "print", "return"} =>
    /\ 10 * font_size - 6 * size <= 5
    /\ 6 * size - 10 * font_size <= 5

\* C7, amended: the requested size is 60% of the edge length rounded down
\* (truncated): 9, 28 and 76 for 16, 48 and 128; the primary font, when it
\* loads, has that size.
C7_Theorem ==
  pc \in {"bbox", "centre", "draw", "save", "print", "return"} =>
    /\ 10 * font_size <= 6 * size
    /\ 6 * size < 10 * (font_size + 1)
    /\ font_size = (CASE size = 16 -> 9 [] size = 48 -> 28 [] size = 128 -> 76)
    /\ font.kind = "truetype" => font.size = font_size

C7_Witness == pc = "bbox" /\ size = 16 /\ font.kind = "truetype" /\ font.size = 9

\* ------------------------------------------------------------ C8
\* The two runs selected the same font for every icon.
SameFonts ==
  \A f \in Filenames :
    files[f].img.glyph[1].font.kind = prevFiles[f].img.glyph[1].font.kind

\* C8: in a run that follows a run that ended at "done", makedirs succeeds (the
\* directory exists); a save replaces whatever the file held by the canvas just
\* drawn; and when the run ends at "done" having selected the same fonts as the
\* run before, every file is what that run left.
C8_Theorem ==
  /\ (run > 1 /\ prevOk /\ trace # <<>>) => (trace[1].op = "makedirs" /\ trace[1].ok)
  /\ (pc = "print" /\ trace[Len(trace)].op = "save") =>
       files[filename] = [state |-> "png", img |-> img]
  /\ pc = "done" => \A f \in Filenames : files[f].state = "png"
  /\ (run > 1 /\ prevOk /\ pc = "done" /\ SameFonts) => files = prevFiles

C8_Witness ==
  /\ run = 2
  /\ prevOk
  /\ pc = "done"
  /\ SameFonts
  /\ files = prevFiles
  /\ files["icon48.png"].img.glyph[1].font.kind = "default"

\* ------------------------------------------------------------ C9
\* The call for the i-th icon has ended: it returned, or its save raised.
Returned(i) == i < idx \/ (i = idx /\ pc \in {"return", "final", "done"})
Ended(i) == Returned(i) \/ (i = idx /\ pc = "aborted" /\ SaveFailed)

SaveAttempts(i) == Count(trace, LAMBDA e : e.op = "save" /\ e.arg = Calls[i].filename)
StatusLines(i) == Count(out, LAMBDA l : l = CreatedLine(Calls[i].filename))

\* C9 as stated: every call that has ended made one write and printed one
\* status line.
C9_Original ==
  \A i \in 1..Len(Calls) :
    Ended(i) => SaveAttempts(i) = 1 /\ StatusLines(i) = 1

InCreateIcon == pc \in {"new", "font", "bbox", "centre", "draw", "save", "print", "return"}

\* C9, amended: a step of create_icon changes no file but the call's own; a
\* call that has ended made exactly one write attempt, to its own file, and
\* printed exactly one status line if it returned and none if its save failed.
C9_Theorem ==
  [][ /\ InCreateIcon =>
           \A f \in Filenames : f # Calls[idx].filename => files'[f] = files[f]
      /\ ~InCreateIcon => files' = files
      /\ \A i \in 1..Len(Calls) :
           /\ Ended(i)' => SaveAttempts(i)' = 1
           /\ Returned(i)' => StatusLines(i)' = 1
           /\ (Ended(i)' /\ ~Returned(i)') => StatusLines(i)' = 0 ]_vars

C9_Witness ==
  /\ pc = "return"
  /\ idx = 2
  /\ files["icon48.png"].state = "png"
  /\ files["icon128.png"] = Stale
  /\ SaveAttempts(2) = 1
  /\ StatusLines(2) = 1

\* ------------------------------------------------------------ C10
\* C10: every reported file was saved in this run and holds a complete image,
\* at most one saved file is not yet reported, and the final line is printed
\* only when all three files were saved in this run.
C10_Theorem ==
  /\ Reported \subseteq Saved
  /\ \A f \in Reported : files[f].state = "png"
  /\ Cardinality(Saved \ Reported) <= 1
  /\ FinalPrinted => Saved = Filenames

C10_Witness ==
  /\ pc = "print"
  /\ Reported = {"icon16.png"}
  /\ Saved = {"icon16.png", "icon48.png"}

====
